---- MODULE Spec2Model ----
(***************************************************************************)
(* A model of Osi2::ControlAPI_Imp (Osi2ControlAPI_Imp.cpp): the registry  *)
(* that maps short names to loaded plugin libraries and brokers object     *)
(* creation and destruction through the PluginManager.                     *)
(*                                                                         *)
(* Strings that the code only compares (short names, API names) are TLA+   *)
(* strings; strings that the code builds or splits (library names,         *)
(* directories, full paths) are sequences of characters.  A pointer        *)
(* argument is a sequence of length at most one: << >> is the null         *)
(* pointer, <<v>> points to v.                                             *)
(***************************************************************************)
EXTENDS Integers, Sequences, FiniteSets, TLC

\* ------------------------------------------------------------------ bounds
\* Number of library identifiers the PluginManager can hand out.
MaxLibID == 2
\* Number of objects the PluginManager can construct.
MaxObjs == 2
\* Number of ControlAPI_Imp objects that exist at one time.
MaxRegs == 2
\* Number of CoinMessageHandler objects ever allocated.
MaxHandlers == 3

\* ------------------------------------------------------------------ inputs
ShortNames == {"s1", "s2"}
APINames == {"A", "B"}
LibNames == { <<"a">>, <<"d", "/", "a">> }
DirNames == { << >>, <<"d">> }
DirPtrs == { << >> } \cup { <<d>> : d \in DirNames }
ShortNamePtrs == { << >>, <<"">> } \cup { <<s>> : s \in ShortNames }

\* The object handed to destroyObject that no createObject of this
\* ControlAPI_Imp produced.
ForeignObj == MaxObjs + 1
NullObj == 0
Objs == 1 .. MaxObjs

\* Statuses of the PluginManager, as documented at the call sites.
LoadFailStatuses == {-3, -1}
DestroyStatuses == {0, 1}

VARIABLES
    knownLibMap_,   \* short name -> [fullPath_, uniqueID_]
    pluginMgr_,     \* TRUE when the cached PluginManager pointer is non-null
    identInfo,      \* the ident info slot of this API object: << >> or <<[apiName_, libID_]>>
    mgrExists,      \* PluginManager::getInstance() yields an instance
    provLibs,       \* libraries the PluginManager holds: set of [path, id]
    nextLibID,      \* next PluginUniqueID the PluginManager assigns
    nextObj,        \* next object the PluginManager constructs
    bound,          \* object -> the (apiName, libID) createObject built for it
    destroyed,      \* objects on which destroyObject has succeeded
    last,           \* the last call: its arguments, result, PluginManager calls, messages
    regs,           \* ControlAPI_Imp objects: << >> or <<[msgHandler_, dfltHandler_]>>
    handlers,       \* CoinMessageHandler objects: [byClient, deletes, logLevel]
    hlast           \* the last construction, copy, assignment or destruction

vars == << knownLibMap_, pluginMgr_, identInfo, mgrExists, provLibs, nextLibID,
           nextObj, bound, destroyed, last, regs, handlers, hlast >>

\* The state of the load/unload/create/destroy operations of one registry.
rvars == << knownLibMap_, pluginMgr_, identInfo, mgrExists, provLibs, nextLibID,
            nextObj, bound, destroyed, last >>

\* The message handlers and the registries that hold them.
hvars == << regs, handlers, hlast >>

\* ------------------------------------------------------------ pure helpers
dirSep == "/"

\* The record of a call; fields a call does not use keep these values.
NoCall == [ op |-> "init", shortName |-> << >>,
            apiName |-> "", obj |-> NullObj, outObj |-> NullObj, ret |-> 0,
            calls |-> << >>, msgs |-> << >>,
            wasDestroyed |-> FALSE, roundTrip |-> FALSE ]

\* load: the path entered into the map (lines 192-196).
LoadFullPath(libName, dirName) ==
    IF dirName # << >> /\ dirName[1] # << >>
    THEN dirName[1] \o <<dirSep>> \o libName
    ELSE libName

\* load: the directory argument of loadOneLib (lines 194-200).
LoadDirArg(dirName) ==
    IF dirName # << >> /\ dirName[1] # << >> THEN dirName ELSE << >>

\* std::string::rfind(dirSep): the last position of dirSep, 0 for npos.
RFind(s, c) ==
    LET hits == { i \in 1 .. Len(s) : s[i] = c }
    IN  IF hits = {} THEN 0 ELSE CHOOSE i \in hits : \A j \in hits : j <= i

\* unload: the (libName, dirName) handed to unloadOneLib (lines 298-310).
UnloadSplit(fullPath) ==
    LET dirPos == RFind(fullPath, dirSep)
    IN  IF dirPos # 0
        THEN [ libName |-> SubSeq(fullPath, dirPos + 1, Len(fullPath)),
               dirName |-> << SubSeq(fullPath, 1, dirPos - 1) >> ]
        ELSE [ libName |-> fullPath, dirName |-> << >> ]

\* Mutant of findPluginMgr: the instance is taken to exist.
findPluginMgr_Assumed == TRUE

\* findPluginMgr: the value of pluginMgr_ after the call (lines 446-455).
findPluginMgr == pluginMgr_ \/ mgrExists

\* findPluginMgr: the message it emits when it finds none.
findPluginMgrMsgs == IF findPluginMgr THEN << >> ELSE << "NOPLUGMGR" >>

\* The short names in the order in which std::map iterates over its keys.
ShortNameOrder == << "s1", "s2" >>

\* The results of the reverse lookups when no record matches (lines 466, 478).
unknownLibID == "<unknown lib ID>"
unknownLibPath == << "<unknown lib ID>" >>

\* getShortName, getFullPath: the key of the first record, in the map's
\* iteration order, whose uniqueID_ is libID; "" when there is none
\* (lines 461-465, 473-477).
FirstMatch(libID) ==
    LET hits == { i \in DOMAIN ShortNameOrder :
                    /\ ShortNameOrder[i] \in DOMAIN knownLibMap_
                    /\ knownLibMap_[ShortNameOrder[i]].uniqueID_ = libID }
    IN  IF hits = {} THEN ""
        ELSE ShortNameOrder[CHOOSE i \in hits : \A j \in hits : i <= j]

\* Mutant of getShortName: the scan does not stop at the first match.
getShortName_LastMatch(libID) ==
    LET hits == { i \in DOMAIN ShortNameOrder :
                    /\ ShortNameOrder[i] \in DOMAIN knownLibMap_
                    /\ knownLibMap_[ShortNameOrder[i]].uniqueID_ = libID }
    IN  IF hits = {} THEN unknownLibID
        ELSE ShortNameOrder[CHOOSE i \in hits : \A j \in hits : j <= i]

\* getShortName (lines 458-467).
getShortName(libID) ==
    IF FirstMatch(libID) = "" THEN unknownLibID ELSE FirstMatch(libID)

\* getFullPath (lines 470-479).
getFullPath(libID) ==
    IF FirstMatch(libID) = "" THEN unknownLibPath
    ELSE knownLibMap_[FirstMatch(libID)].fullPath_

\* ------------------------------------------------- PluginManager (boundary)
\* The path under which the PluginManager knows a library.
ProvPath(libName, dirArg) ==
    IF dirArg = << >> THEN libName ELSE dirArg[1] \o <<dirSep>> \o libName

\* The APIs the library at a path registers when it is initialised.
LibAPIs(path) ==
    IF path = <<"d", "/", "a">> THEN {"B"} ELSE {"A"}

\* The possible outcomes of loadOneLib: [status, uniqueID, libs].
ProvLoadOutcomes(libName, dirArg) ==
    LET path == ProvPath(libName, dirArg)
        held == { l \in provLibs : l.path = path }
    IN  { [ status |-> s, uniqueID |-> 0, libs |-> provLibs ] : s \in LoadFailStatuses }
        \cup { [ status |-> 1, uniqueID |-> l.id, libs |-> provLibs ] : l \in held }
        \cup IF held = {} /\ nextLibID <= MaxLibID
             THEN { [ status |-> 0, uniqueID |-> nextLibID,
                      libs |-> provLibs \cup { [ path |-> path, id |-> nextLibID ] } ] }
             ELSE {}

\* The possible outcomes of unloadOneLib: [status, libs].
ProvUnloadOutcomes(libName, dirArg) ==
    LET path == ProvPath(libName, dirArg)
        held == { l \in provLibs : l.path = path }
    IN  IF held = {}
        THEN { [ status |-> 1, libs |-> provLibs ] }
        ELSE { [ status |-> 0, libs |-> provLibs \ held ],
               [ status |-> -1, libs |-> provLibs ] }

\* The possible results of PluginManager::createObject: an object or null.
ProvCreateOutcomes(apiName, libID) ==
    LET makers == { l \in provLibs : /\ apiName \in LibAPIs(l.path)
                                      /\ (libID = 0 \/ l.id = libID) }
    IN  { NullObj } \cup (IF makers # {} /\ nextObj <= MaxObjs THEN { nextObj } ELSE {})

\* ------------------------------------------------------------ ControlAPI_Imp
\* Mutant of LoadAlreadyKnown: the fast path is never taken.
LoadAlreadyKnown_Never(shortName) == FALSE

\* load: the short name is already in the map (lines 179-180).
LoadAlreadyKnown(shortName) == shortName \in DOMAIN knownLibMap_

\* load: the code returned for a short name already in the map (line 180).
LoadAlreadyLoadedCode == 1

\* load: the code returned without a plugin manager (line 185).
LoadNoPluginMgrCode == -4

\* Mutant of LoadFailed: only status 0 counts as loaded.
LoadFailed_NonZero(retval) == retval # 0

\* load: the library is not entered into the map (line 201).
LoadFailed(retval) == retval < 0

\* load: the map after a load that did not fail (lines 210-212).
LoadEnter(shortName, fullPath, uniqueID) ==
    [ n \in DOMAIN knownLibMap_ \cup {shortName} |->
        IF n = shortName THEN [ fullPath_ |-> fullPath, uniqueID_ |-> uniqueID ]
        ELSE knownLibMap_[n] ]

\* Mutant of LoadMsgs: status 1 is not reported.
LoadMsgs_NoUnreg(retval) ==
    IF LoadFailed(retval) THEN << "LIBLDFAIL" >> ELSE << "LIBLDOK" >>

\* load: the messages of a load that reached loadOneLib (lines 201-214).
LoadMsgs(retval) ==
    IF LoadFailed(retval) THEN << "LIBLDFAIL" >>
    ELSE IF retval = 1 THEN << "UNREG", "LIBLDOK" >>
    ELSE << "LIBLDOK" >>

load ==
    /\ UNCHANGED hvars
    /\ \E shortName \in ShortNames, libName \in LibNames, dirName \in DirPtrs :
        LET call == [ NoCall EXCEPT !.op = "load", !.shortName = <<shortName>> ]
        IN  IF LoadAlreadyKnown(shortName)
            THEN /\ last' = [ call EXCEPT !.ret = LoadAlreadyLoadedCode ]
                 /\ UNCHANGED << knownLibMap_, pluginMgr_, identInfo, mgrExists, provLibs,
                                 nextLibID, nextObj, bound, destroyed >>
            ELSE IF ~ findPluginMgr
            THEN /\ last' = [ call EXCEPT !.ret = LoadNoPluginMgrCode,
                                          !.msgs = findPluginMgrMsgs ]
                 /\ pluginMgr_' = findPluginMgr
                 /\ UNCHANGED << knownLibMap_, identInfo, mgrExists, provLibs,
                                 nextLibID, nextObj, bound, destroyed >>
            ELSE \E out \in ProvLoadOutcomes(libName, LoadDirArg(dirName)) :
                 LET fullPath == LoadFullPath(libName, dirName)
                     retval == out.status
                 IN  /\ pluginMgr_' = findPluginMgr
                     /\ provLibs' = out.libs
                     /\ nextLibID' = IF out.status = 0 THEN nextLibID + 1 ELSE nextLibID
                     /\ knownLibMap_' = IF LoadFailed(retval) THEN knownLibMap_
                                        ELSE LoadEnter(shortName, fullPath, out.uniqueID)
                     /\ last' = [ call EXCEPT
                                    !.ret = retval,
                                    !.calls = << [ fn |-> "loadOneLib", libName |-> libName,
                                                   dirName |-> LoadDirArg(dirName),
                                                   apiName |-> "", libID |-> out.uniqueID,
                                                   obj |-> NullObj, status |-> out.status ] >>,
                                    !.msgs = LoadMsgs(retval) ]
                     /\ UNCHANGED << identInfo, mgrExists, nextObj, bound,
                                     destroyed >>

\* unload: the short name is not in the map (lines 280-281).
UnloadNotKnown(shortName) == shortName \notin DOMAIN knownLibMap_

\* Mutant of UnloadNotRegisteredCode: the PluginManager's "not loaded" status.
UnloadNotRegisteredCode_NotLoaded == LoadAlreadyLoadedCode

\* unload: the code returned for a short name that is not in the map (line 285).
UnloadNotRegisteredCode == 2

\* unload: the code returned without a plugin manager (line 292).
UnloadNoPluginMgrCode == -2

\* Mutant of UnloadMapAfter: the entry is erased whatever unloadOneLib returns.
UnloadMapAfter_Erase(shortName, retval) ==
    [ n \in DOMAIN knownLibMap_ \ { shortName } |-> knownLibMap_[n] ]

\* unload: the map after unloadOneLib returned retval (lines 311-319).
UnloadMapAfter(shortName, retval) == knownLibMap_

\* unload: the message after unloadOneLib returned retval (lines 311-317).
UnloadMsgs(retval) ==
    IF retval = 0 THEN << "LIBCLOSEOK" >> ELSE << "LIBCLOSEFAIL" >>

unload ==
    /\ UNCHANGED hvars
    /\ \E shortName \in ShortNames :
        LET call == [ NoCall EXCEPT !.op = "unload", !.shortName = <<shortName>> ]
        IN  IF UnloadNotKnown(shortName)
            THEN /\ last' = [ call EXCEPT !.ret = UnloadNotRegisteredCode,
                                          !.msgs = << "UNREG" >> ]
                 /\ UNCHANGED << knownLibMap_, pluginMgr_, identInfo, mgrExists, provLibs,
                                 nextLibID, nextObj, bound, destroyed >>
            ELSE IF ~ findPluginMgr
            THEN /\ last' = [ call EXCEPT !.ret = UnloadNoPluginMgrCode,
                                          !.msgs = findPluginMgrMsgs ]
                 /\ pluginMgr_' = findPluginMgr
                 /\ UNCHANGED << knownLibMap_, identInfo, mgrExists, provLibs,
                                 nextLibID, nextObj, bound, destroyed >>
            ELSE LET fullPath == knownLibMap_[shortName].fullPath_
                     split == UnloadSplit(fullPath)
                 IN  \E out \in ProvUnloadOutcomes(split.libName, split.dirName) :
                     LET retval == out.status
                     IN  /\ pluginMgr_' = findPluginMgr
                         /\ provLibs' = out.libs
                         /\ knownLibMap_' = UnloadMapAfter(shortName, retval)
                         /\ last' = [ call EXCEPT
                                        !.ret = retval,
                                        !.calls = << [ fn |-> "unloadOneLib",
                                                       libName |-> split.libName,
                                                       dirName |-> split.dirName,
                                                       apiName |-> "", libID |-> 0,
                                                       obj |-> NullObj,
                                                       status |-> out.status ] >>,
                                        !.msgs = UnloadMsgs(retval) ]
                         /\ UNCHANGED << identInfo, mgrExists, nextLibID, nextObj, bound, destroyed >>

\* createObject: the call restricts creation to one library (line 354).
CreateRestricted(shortName) == shortName # << >> /\ shortName[1] # ""

\* Mutant of CreateLibID: the restriction is never resolved.
CreateLibID_Zero(shortName) == 0

\* createObject: the library identifier handed to the PluginManager (lines 351-364).
CreateLibID(shortName) ==
    IF CreateRestricted(shortName) /\ shortName[1] \in DOMAIN knownLibMap_
    THEN knownLibMap_[shortName[1]].uniqueID_
    ELSE 0

\* createObject: the message of the restriction lookup (lines 357-361).
CreateLookupMsgs(shortName) ==
    IF CreateRestricted(shortName) /\ shortName[1] \notin DOMAIN knownLibMap_
    THEN << "LIBUNREG" >> ELSE << >>

\* createObject: the code returned without a plugin manager (line 343).
CreateNoPluginMgrCode == -2

\* Mutant of CreateOkCode: an ignored restriction is not reported.
CreateOkCode_AlwaysZero(restricted, libID) == 0

\* createObject: the code returned when the PluginManager gave an object (line 381).
CreateOkCode(restricted, libID) == IF restricted /\ libID = 0 THEN 1 ELSE 0

\* createObject: the code returned when the PluginManager gave null (line 374).
CreateFailCode == -1

\* createObject: the ident info built for the new object (line 376).
APIObjIdentInfo(apiName, libID) == [ apiName_ |-> apiName, libID_ |-> libID ]

\* createObject: setIdentInfo is called on this ControlAPI_Imp, not on obj
\* (line 377); the value of the ident info slot after the call.
setIdentInfo(apiIdent) == << apiIdent >>

createObject ==
    /\ UNCHANGED hvars
    /\ \E apiName \in APINames, shortName \in ShortNamePtrs :
        LET call == [ NoCall EXCEPT !.op = "createObject", !.apiName = apiName,
                                    !.shortName = shortName ]
        IN  IF ~ findPluginMgr
            THEN /\ last' = [ call EXCEPT !.ret = CreateNoPluginMgrCode,
                                          !.msgs = findPluginMgrMsgs ]
                 /\ pluginMgr_' = findPluginMgr
                 /\ UNCHANGED << knownLibMap_, identInfo, mgrExists, provLibs,
                                 nextLibID, nextObj, bound, destroyed >>
            ELSE LET libID == CreateLibID(shortName)
                     restricted == CreateRestricted(shortName)
                 IN  \E obj \in ProvCreateOutcomes(apiName, libID) :
                     LET pcall == [ fn |-> "createObject", libName |-> << >>,
                                    dirName |-> << >>, apiName |-> apiName,
                                    libID |-> libID, obj |-> obj,
                                    status |-> IF obj = NullObj THEN -1 ELSE 0 ]
                     IN  /\ pluginMgr_' = findPluginMgr
                         /\ IF obj = NullObj
                            THEN /\ last' = [ call EXCEPT
                                                !.ret = CreateFailCode,
                                                !.calls = << pcall >>,
                                                !.msgs = CreateLookupMsgs(shortName)
                                                         \o << "CREATEFAIL" >> ]
                                 /\ UNCHANGED << identInfo, nextObj, bound >>
                            ELSE /\ identInfo' = setIdentInfo(APIObjIdentInfo(apiName, libID))
                                 /\ nextObj' = nextObj + 1
                                 /\ bound' = Append(bound, APIObjIdentInfo(apiName, libID))
                                 /\ last' = [ call EXCEPT
                                                !.ret = CreateOkCode(restricted, libID),
                                                !.outObj = obj,
                                                !.calls = << pcall >>,
                                                !.msgs = CreateLookupMsgs(shortName)
                                                         \o << "CREATEOK" >> ]
                         /\ UNCHANGED << knownLibMap_, mgrExists, provLibs, nextLibID,
                                         destroyed >>

\* destroyObject: getIdentInfo is called on this ControlAPI_Imp, not on obj
\* (lines 410-411).
getIdentInfo(obj) == identInfo

\* destroyObject: the code returned without a plugin manager (line 404).
DestroyNoPluginMgrCode == -2

\* destroyObject: the code returned without ident info (line 414).
DestroyNoIdentCode == -3

\* Mutant of DestroyCode: the unrestricted identifier is not reported.
DestroyCode_NoSoft(status, libID) == IF status # 0 THEN -1 ELSE 0

\* destroyObject: the code returned after the PluginManager's destroyObject
\* returned status (lines 423-433).
DestroyCode(status, libID) ==
    IF status # 0 THEN -1 ELSE IF libID = 0 THEN 1 ELSE 0

\* destroyObject: the message and, for a library identifier, the short name
\* printed with it (lines 423-431).
DestroyMsgs(status, libID) ==
    << IF status # 0 THEN "DESTROYFAIL" ELSE "DESTROYOK" >>
    \o (IF libID # 0 THEN << getShortName(libID) >> ELSE << >>)

\* destroyObject: the ident info slot after a destroy (lines 422-435: untouched).
DestroyIdentAfter(status) == identInfo

destroyObject ==
    /\ UNCHANGED hvars
    /\ \E obj \in (1 .. (nextObj - 1)) \cup { ForeignObj } :
        LET call == [ NoCall EXCEPT
                        !.op = "destroyObject", !.obj = obj,
                        !.wasDestroyed = obj \in destroyed,
                        !.roundTrip = /\ last.op = "createObject"
                                      /\ ~ CreateRestricted(last.shortName)
                                      /\ last.outObj = obj ]
        IN  IF ~ findPluginMgr
            THEN /\ last' = [ call EXCEPT !.ret = DestroyNoPluginMgrCode,
                                          !.msgs = findPluginMgrMsgs ]
                 /\ pluginMgr_' = findPluginMgr
                 /\ UNCHANGED << knownLibMap_, identInfo, mgrExists, provLibs,
                                 nextLibID, nextObj, bound, destroyed >>
            ELSE IF getIdentInfo(obj) = << >>
            THEN /\ last' = [ call EXCEPT !.ret = DestroyNoIdentCode,
                                          !.msgs = << "NOAPIIDENT" >> ]
                 /\ pluginMgr_' = findPluginMgr
                 /\ UNCHANGED << knownLibMap_, identInfo, mgrExists, provLibs,
                                 nextLibID, nextObj, bound, destroyed >>
            ELSE LET apiIdent == getIdentInfo(obj)[1]
                 IN  \E status \in DestroyStatuses :
                     /\ pluginMgr_' = findPluginMgr
                     /\ identInfo' = DestroyIdentAfter(status)
                     /\ destroyed' = IF status = 0 THEN destroyed \cup ({ obj } \cap Objs)
                                     ELSE destroyed
                     /\ last' = [ call EXCEPT
                                    !.ret = DestroyCode(status, apiIdent.libID_),
                                    !.calls = << [ fn |-> "destroyObject", libName |-> << >>,
                                                   dirName |-> << >>,
                                                   apiName |-> apiIdent.apiName_,
                                                   libID |-> apiIdent.libID_,
                                                   obj |-> obj, status |-> status ] >>,
                                    !.msgs = DestroyMsgs(status, apiIdent.libID_) ]
                     /\ UNCHANGED << knownLibMap_, mgrExists, provLibs, nextLibID,
                                     nextObj, bound >>

\* PluginManager::getInstance() starts to yield an instance.
StartPluginMgr ==
    /\ ~ mgrExists
    /\ mgrExists' = TRUE
    /\ UNCHANGED << knownLibMap_, pluginMgr_, identInfo, provLibs, nextLibID,
                    nextObj, bound, destroyed, last >>
    /\ UNCHANGED hvars

\* ------------------------------------------------- message handler ownership
\* Slots in which a ControlAPI_Imp object can live.
Regs == 1 .. MaxRegs

\* A slot with no object in it.
NoReg == << >>

\* logLvl_ as the default constructor sets it; no code of this file changes it.
logLvl_ == 7

\* Log levels a client sets on a handler.
LogLevels == { 0, logLvl_ }

NoHCall == [ op |-> "none", this |-> 0, rhs |-> 0, usedDeleted |-> FALSE ]

\* The handler an object holds.
msgHandler(r) == regs[r][1].msgHandler_

\* new CoinMessageHandler(*rhs.msgHandler_)
CopyHandler(hs, h) ==
    [ byClient |-> FALSE, deletes |-> 0, logLevel |-> hs[h].logLevel ]

\* delete msgHandler_
DeleteHandler(hs, h) == [ hs EXCEPT ![h].deletes = @ + 1 ]

\* msgHandler_->setLogLevel(lvl)
HandlerSetLogLevel(hs, h, lvl) == [ hs EXCEPT ![h].logLevel = lvl ]

\* The default constructor: the initializer list names pluginMgr_ and logLvl_
\* only, so dfltHandler_ holds an indeterminate value.
ControlAPI_Imp ==
    /\ UNCHANGED rvars
    /\ \E r \in Regs, indeterminate \in BOOLEAN :
        /\ regs[r] = NoReg
        /\ Len(handlers) < MaxHandlers
        /\ LET h == Len(handlers) + 1
               made == [ byClient |-> FALSE, deletes |-> 0, logLevel |-> 0 ]
           IN  /\ handlers' = HandlerSetLogLevel(Append(handlers, made), h, logLvl_)
               /\ regs' = [ regs EXCEPT ![r] =
                              << [ msgHandler_ |-> h, dfltHandler_ |-> indeterminate ] >> ]
               /\ hlast' = [ op |-> "default", this |-> r, rhs |-> 0,
                             usedDeleted |-> FALSE ]

\* The copy constructor.
ControlAPI_Imp_copy ==
    /\ UNCHANGED rvars
    /\ \E r \in Regs, rhs \in Regs :
        /\ regs[r] = NoReg
        /\ regs[rhs] # NoReg
        /\ LET dfltHandler_ == regs[rhs][1].dfltHandler_
               h == IF dfltHandler_ THEN Len(handlers) + 1 ELSE msgHandler(rhs)
               hs == IF dfltHandler_
                     THEN Append(handlers, CopyHandler(handlers, msgHandler(rhs)))
                     ELSE handlers
           IN  /\ dfltHandler_ => Len(handlers) < MaxHandlers
               /\ handlers' = HandlerSetLogLevel(hs, h, logLvl_)
               /\ regs' = [ regs EXCEPT ![r] =
                              << [ msgHandler_ |-> h, dfltHandler_ |-> dfltHandler_ ] >> ]
               /\ hlast' = [ op |-> "copy", this |-> r, rhs |-> rhs,
                             usedDeleted |-> handlers[msgHandler(rhs)].deletes > 0 ]

\* operator=
operator_assign ==
    /\ UNCHANGED rvars
    /\ \E r \in Regs, rhs \in Regs :
        /\ regs[r] # NoReg
        /\ regs[rhs] # NoReg
        /\ IF r = rhs
           THEN /\ UNCHANGED << regs, handlers >>
                /\ hlast' = [ op |-> "assign", this |-> r, rhs |-> rhs,
                              usedDeleted |-> FALSE ]
           ELSE LET released == IF regs[r][1].dfltHandler_
                                THEN DeleteHandler(handlers, msgHandler(r))
                                ELSE handlers
                    dfltHandler_ == regs[rhs][1].dfltHandler_
                    h == IF dfltHandler_ THEN Len(released) + 1 ELSE msgHandler(rhs)
                    hs == IF dfltHandler_
                          THEN Append(released, CopyHandler(released, msgHandler(rhs)))
                          ELSE released
                IN  /\ dfltHandler_ => Len(handlers) < MaxHandlers
                    /\ handlers' = HandlerSetLogLevel(hs, h, logLvl_)
                    /\ regs' = [ regs EXCEPT ![r] =
                                   << [ msgHandler_ |-> h,
                                        dfltHandler_ |-> dfltHandler_ ] >> ]
                    /\ hlast' = [ op |-> "assign", this |-> r, rhs |-> rhs,
                                  usedDeleted |-> released[msgHandler(rhs)].deletes > 0 ]

\* The destructor.
Destructor ==
    /\ UNCHANGED rvars
    /\ \E r \in Regs :
        /\ regs[r] # NoReg
        /\ handlers' = IF regs[r][1].dfltHandler_
                       THEN DeleteHandler(handlers, msgHandler(r))
                       ELSE handlers
        /\ regs' = [ regs EXCEPT ![r] = NoReg ]
        /\ hlast' = [ op |-> "destroy", this |-> r, rhs |-> 0, usedDeleted |-> FALSE ]

\* The client hands the object a handler of its own: the object releases the
\* handler it made and borrows the client's.
setMsgHandler ==
    /\ UNCHANGED rvars
    /\ \E r \in Regs, lvl \in LogLevels :
        /\ regs[r] # NoReg
        /\ Len(handlers) < MaxHandlers
        /\ LET released == IF regs[r][1].dfltHandler_
                           THEN DeleteHandler(handlers, msgHandler(r))
                           ELSE handlers
               supplied == [ byClient |-> TRUE, deletes |-> 0, logLevel |-> lvl ]
           IN  /\ handlers' = Append(released, supplied)
               /\ regs' = [ regs EXCEPT ![r] =
                              << [ msgHandler_ |-> Len(handlers) + 1,
                                   dfltHandler_ |-> FALSE ] >> ]
               /\ hlast' = [ op |-> "setMsgHandler", this |-> r, rhs |-> 0,
                             usedDeleted |-> FALSE ]

\* The client changes the log level of the handler an object holds.
setLogLevel ==
    /\ UNCHANGED rvars
    /\ \E r \in Regs, lvl \in LogLevels :
        /\ regs[r] # NoReg
        /\ handlers[msgHandler(r)].logLevel # lvl
        /\ handlers' = HandlerSetLogLevel(handlers, msgHandler(r), lvl)
        /\ UNCHANGED regs
        /\ hlast' = [ op |-> "setLogLevel", this |-> r, rhs |-> 0,
                      usedDeleted |-> handlers[msgHandler(r)].deletes > 0 ]

\* One registry after its default constructor; no handler is followed.
Init ==
    /\ knownLibMap_ = << >>
    /\ pluginMgr_ = FALSE
    /\ identInfo = << >>
    /\ mgrExists \in BOOLEAN
    /\ provLibs = {}
    /\ nextLibID = 1
    /\ nextObj = 1
    /\ bound = << >>
    /\ destroyed = {}
    /\ last = NoCall
    /\ regs = [ r \in Regs |-> NoReg ]
    /\ handlers = << >>
    /\ hlast = NoHCall

Next ==
    \/ load
    \/ unload
    \/ createObject
    \/ destroyObject
    \/ StartPluginMgr

Spec == Init /\ [][Next]_vars

\* No object exists yet; the operations on libraries and objects are left out.
InitHandlers ==
    /\ knownLibMap_ = << >>
    /\ pluginMgr_ = FALSE
    /\ identInfo = << >>
    /\ mgrExists = FALSE
    /\ provLibs = {}
    /\ nextLibID = 1
    /\ nextObj = 1
    /\ bound = << >>
    /\ destroyed = {}
    /\ last = NoCall
    /\ regs = [ r \in Regs |-> NoReg ]
    /\ handlers = << >>
    /\ hlast = NoHCall

NextHandlers ==
    \/ ControlAPI_Imp
    \/ ControlAPI_Imp_copy
    \/ operator_assign
    \/ Destructor
    \/ setMsgHandler
    \/ setLogLevel

SpecHandlers == InitHandlers /\ [][NextHandlers]_vars
\* ------------------------------------------------------------------ claims
\* Objects the PluginManager constructed and has not destroyed.
Live == (1 .. (nextObj - 1)) \ destroyed

\* The last call was destroyObject and it reached the PluginManager.
DestroyReached == last.op = "destroyObject" /\ last.calls # << >>

\* C1: destroyObject(obj) asks the PluginManager to destroy with exactly the
\* (interface name, library identifier) pair built when obj was created.
C1_DestroyUsesCreationIdentity ==
    (DestroyReached /\ last.obj \in DOMAIN bound) =>
        /\ last.calls[1].apiName = bound[last.obj].apiName_
        /\ last.calls[1].libID = bound[last.obj].libID_

\* C2: after unload(shortName) returns 0 the short name is no longer in the
\* map, so that a later load of it reaches the PluginManager again.
C2_UnloadUnregisters ==
    (last.op = "unload" /\ last.ret = 0) =>
        last.shortName[1] \notin DOMAIN knownLibMap_

\* C3: no library is unloaded while an object created from it under a
\* restriction is still undestroyed: every live object bound to a library
\* identifier has that library still held by the PluginManager.
C3_NoUnloadWithLiveObjects ==
    \A o \in Live :
        bound[o].libID_ # 0 => \E l \in provLibs : l.id = bound[o].libID_

\* C4: load of a short name already in the map returns 1, makes no
\* PluginManager call and leaves the map (and the PluginManager) unchanged.
C4_LoadIdempotent ==
    [][ (last'.op = "load" /\ last'.shortName[1] \in DOMAIN knownLibMap_) =>
            /\ last'.ret = 1
            /\ last'.calls = << >>
            /\ knownLibMap_' = knownLibMap_
            /\ provLibs' = provLibs
            /\ nextLibID' = nextLibID ]_vars

\* C4 witness: a load of a registered short name has returned 1 without a call.
C4_Witness ==
    /\ last.op = "load"
    /\ last.ret = 1
    /\ last.calls = << >>
    /\ last.shortName[1] \in DOMAIN knownLibMap_
    /\ Cardinality(DOMAIN knownLibMap_) = 2

\* C5: destroyObject of an object that no createObject of this registry
\* produced returns -3 and makes no PluginManager call (the plugin manager
\* being found).
C5_ForeignObjectHasNoIdentity ==
    (last.op = "destroyObject" /\ last.obj = ForeignObj /\ pluginMgr_) =>
        (last.ret = -3 /\ last.calls = << >>)

\* C6: a second destroyObject on an object already destroyed returns -3 and
\* does not call the PluginManager's destroyObject again.
C6_SecondDestroyFindsNoIdentity ==
    (last.op = "destroyObject" /\ last.wasDestroyed /\ pluginMgr_) =>
        (last.ret = -3 /\ last.calls = << >>)

\* The last call completed a round trip: it destroyed, successfully at the
\* PluginManager, the object that the call before it created unrestricted,
\* while exactly one loaded library implements the object's interface.
RoundTrip ==
    /\ DestroyReached
    /\ last.roundTrip
    /\ last.calls[1].status = 0
    /\ Cardinality({ l \in provLibs :
                       bound[last.obj].apiName_ \in LibAPIs(l.path) }) = 1

\* C7 as stated: the round trip returns 0 from destroyObject.
C7_RoundTripReturnsZero == RoundTrip => last.ret = 0

\* C7 as amended: the round trip returns the soft-success code 1 from
\* destroyObject, the object being bound to the unrestricted identifier 0.
C7_RoundTripReturnsOne ==
    RoundTrip => (last.ret = 1 /\ last.calls[1].libID = 0)

\* C7 witness: a round trip has happened.
C7_Witness == RoundTrip /\ last.ret = 1 /\ last.obj \in destroyed

\* The last call was createObject restricted to a non-empty short name that
\* is not in the map (createObject leaves the map as it found it).
RestrictedToUnregistered ==
    /\ last.op = "createObject"
    /\ last.shortName # << >>
    /\ last.shortName[1] # ""
    /\ last.shortName[1] \notin DOMAIN knownLibMap_

\* C9 as stated: createObject restricted to an unregistered short name
\* returns a non-null object with code 1, never a negative code (the plugin
\* manager being found).
C9_UnregisteredAlwaysSucceeds ==
    (RestrictedToUnregistered /\ pluginMgr_) =>
        (last.outObj # NullObj /\ last.ret = 1)

\* C9 as amended: with the plugin manager found, createObject restricted to an
\* unregistered short name emits the unregistered-library message, hands
\* identifier 0 to the PluginManager, and returns the object with code 1 when
\* the PluginManager gives one, -1 with a null object when it gives null;
\* without a plugin manager it returns -2 with a null object and no call.
C9_UnregisteredIsSoft ==
    RestrictedToUnregistered =>
        IF pluginMgr_
        THEN /\ last.msgs[1] = "LIBUNREG"
             /\ Len(last.calls) = 1
             /\ last.calls[1].fn = "createObject"
             /\ last.calls[1].libID = 0
             /\ last.calls[1].apiName = last.apiName
             /\ last.outObj = last.calls[1].obj
             /\ last.ret = IF last.calls[1].obj # NullObj THEN 1 ELSE -1
        ELSE /\ last.ret = -2
             /\ last.outObj = NullObj
             /\ last.calls = << >>

\* C9 witness: a creation restricted to an unregistered short name has
\* returned an object with code 1 while another short name is registered.
C9_Witness ==
    /\ RestrictedToUnregistered
    /\ last.outObj # NullObj
    /\ last.ret = 1
    /\ knownLibMap_ # << >>

\* C8: unload of a short name that is not in the map returns 2, makes no
\* PluginManager call and leaves the map (and the PluginManager) unchanged.
C8_UnloadUnregistered ==
    [][ (last'.op = "unload" /\ last'.shortName[1] \notin DOMAIN knownLibMap_) =>
            /\ last'.ret = 2
            /\ last'.calls = << >>
            /\ knownLibMap_' = knownLibMap_
            /\ provLibs' = provLibs
            /\ pluginMgr_' = pluginMgr_ ]_vars

\* C8 witness: an unload of an unregistered short name has returned 2 while
\* another short name is registered and its library held.
C8_Witness ==
    /\ last.op = "unload"
    /\ last.ret = 2
    /\ last.calls = << >>
    /\ last.shortName[1] \notin DOMAIN knownLibMap_
    /\ knownLibMap_ # << >>
    /\ provLibs # {}

\* C10: a load of a short name absent from the map, the plugin manager being
\* found, returns loadOneLib's status unchanged; the short name is in the map
\* afterwards, with the path handed to loadOneLib and the identifier it
\* assigned, exactly when that status is 0 or 1; every other entry is kept,
\* and on a negative status the map is unchanged.
C10_LoadRecordsOnSuccess ==
    [][ ( /\ last'.op = "load"
          /\ last'.shortName[1] \notin DOMAIN knownLibMap_
          /\ findPluginMgr ) =>
            LET n == last'.shortName[1]
                c == last'.calls[1]
                path == IF c.dirName = << >> THEN c.libName
                        ELSE c.dirName[1] \o << "/" >> \o c.libName
            IN  /\ Len(last'.calls) = 1
                /\ c.fn = "loadOneLib"
                /\ last'.ret = c.status
                /\ (n \in DOMAIN knownLibMap_') <=> (c.status \in {0, 1})
                /\ n \in DOMAIN knownLibMap_' =>
                       knownLibMap_'[n] = [ fullPath_ |-> path, uniqueID_ |-> c.libID ]
                /\ \A m \in DOMAIN knownLibMap_ : /\ m \in DOMAIN knownLibMap_'
                                                  /\ knownLibMap_'[m] = knownLibMap_[m]
                /\ c.status < 0 => knownLibMap_' = knownLibMap_ ]_vars

\* C10 witness: a load that the PluginManager answered with status 1 has
\* entered the short name with the identifier of the library already held.
C10_Witness ==
    /\ last.op = "load"
    /\ last.calls # << >>
    /\ last.ret = 1
    /\ last.calls[1].status = 1
    /\ last.shortName[1] \in DOMAIN knownLibMap_
    /\ knownLibMap_[last.shortName[1]].uniqueID_ = last.calls[1].libID
    /\ \E l \in provLibs : l.id = last.calls[1].libID
\* C11: when unload finds the record and unloadOneLib returns a nonzero
\* status, the map is unchanged (the record keeps its path and identifier,
\* and so does every other record) and unload returns that status unchanged.
C11_FailedUnloadKeepsRecord ==
    [][ ( /\ last'.op = "unload"
          /\ last'.calls # << >>
          /\ last'.calls[1].status # 0 ) =>
            /\ last'.calls[1].fn = "unloadOneLib"
            /\ last'.shortName[1] \in DOMAIN knownLibMap_
            /\ knownLibMap_' = knownLibMap_
            /\ last'.ret = last'.calls[1].status ]_vars

\* C11 witness: an unload that unloadOneLib refused has returned the refusal
\* while two short names are registered.
C11_Witness ==
    /\ last.op = "unload"
    /\ last.calls # << >>
    /\ last.calls[1].status = -1
    /\ last.ret = -1
    /\ last.shortName[1] \in DOMAIN knownLibMap_
    /\ Cardinality(DOMAIN knownLibMap_) = 2
\* The short names registered with library identifier u.
Carriers(u) == { n \in DOMAIN knownLibMap_ : knownLibMap_[n].uniqueID_ = u }

\* C12 as stated: for every registered short name n, with identifier u and
\* path p, getShortName(u) is n and getFullPath(u) is p, also when another
\* short name is registered against the same library.
C12_ReverseLookupYieldsName ==
    \A n \in DOMAIN knownLibMap_ :
        /\ getShortName(knownLibMap_[n].uniqueID_) = n
        /\ getFullPath(knownLibMap_[n].uniqueID_) = knownLibMap_[n].fullPath_

\* C12 as amended: getShortName(u) is a registered short name whose record
\* carries u, the first of them in the map's key order, and getFullPath(u) is
\* the path of that record; so they are n and p when n is the only short name
\* carrying u; an identifier that no record carries yields the unknown
\* sentinel from both.
C12_ReverseLookupYieldsFirstCarrier ==
    \A u \in 0 .. (MaxLibID + 1) :
        IF Carriers(u) = {}
        THEN getShortName(u) = "<unknown lib ID>" /\ getFullPath(u) = << "<unknown lib ID>" >>
        ELSE /\ getShortName(u) \in Carriers(u)
             /\ \A i, j \in DOMAIN ShortNameOrder :
                    (ShortNameOrder[i] \in Carriers(u) /\ ShortNameOrder[j] = getShortName(u))
                        => j <= i
             /\ getFullPath(u) = knownLibMap_[getShortName(u)].fullPath_
             /\ \A n \in Carriers(u) :
                    Carriers(u) = { n } =>
                        /\ getShortName(u) = n
                        /\ getFullPath(u) = knownLibMap_[n].fullPath_

\* C12 witness: two short names are registered against the same library, and
\* a destroyObject has printed the short name it looked up for it.
C12_Witness ==
    /\ \E u \in 1 .. MaxLibID : Carriers(u) = { "s1", "s2" } /\ getShortName(u) = "s1"
    /\ last.op = "destroyObject"
    /\ Len(last.msgs) = 2
    /\ last.msgs[2] = "s1"
\* C14: while PluginManager::getInstance() yields no instance, no call
\* reaches the PluginManager and nothing of the registry changes: the map,
\* the ident info and the objects are as constructed, createObject's object
\* is null, load of a short name not in the map returns -4, and unload of a
\* registered short name, createObject and destroyObject return -2.
C14_NoPluginMgrNoEffect ==
    ~ mgrExists =>
        /\ ~ pluginMgr_
        /\ knownLibMap_ = << >>
        /\ identInfo = << >>
        /\ provLibs = {}
        /\ nextObj = 1
        /\ destroyed = {}
        /\ last.calls = << >>
        /\ last.outObj = NullObj
        /\ (last.op = "load" /\ last.shortName[1] \notin DOMAIN knownLibMap_)
              => last.ret = -4
        /\ (last.op = "unload" /\ last.shortName[1] \in DOMAIN knownLibMap_)
              => last.ret = -2
        /\ last.op \in { "createObject", "destroyObject" } => last.ret = -2

\* C14 witness: a createObject without a plugin manager has returned -2 and
\* reported that it found none.
C14_Witness ==
    /\ ~ mgrExists
    /\ last.op = "createObject"
    /\ last.ret = -2
    /\ last.msgs = << "NOPLUGMGR" >>

\* The last call was a load that loadOneLib answered with status 1.
LoadedAtProvider ==
    last.op = "load" /\ last.calls # << >> /\ last.calls[1].status = 1

\* C15 as stated: the code load returns when the PluginManager reports the
\* library already loaded differs from the code it returns for a short name
\* already in the map, which is 1.
C15_AlreadyLoadedCodesDiffer == LoadedAtProvider => last.ret # 1

\* C15 as amended: load returns 1 in both situations, which differ in what
\* load does: for a short name already in the map it makes no PluginManager
\* call and emits no message; when loadOneLib returns 1 it emits the
\* unregistered-library message and the load message and the short name is in
\* the map with the identifier loadOneLib returned.
C15_AlreadyLoadedSameCode ==
    /\ LoadedAtProvider =>
          /\ last.ret = 1
          /\ last.msgs = << "UNREG", "LIBLDOK" >>
          /\ last.shortName[1] \in DOMAIN knownLibMap_
          /\ knownLibMap_[last.shortName[1]].uniqueID_ = last.calls[1].libID
    /\ (last.op = "load" /\ last.ret = 1 /\ ~ LoadedAtProvider) =>
          /\ last.calls = << >>
          /\ last.msgs = << >>
          /\ last.shortName[1] \in DOMAIN knownLibMap_

\* C15 witness: a load that loadOneLib answered with status 1 has returned 1.
C15_Witness ==
    /\ LoadedAtProvider
    /\ last.ret = 1
    /\ Cardinality(DOMAIN knownLibMap_) = 2
    /\ "UNREG" = last.msgs[1]

\* C16: a restricted createObject hands the PluginManager a library
\* identifier other than 0 only for a short name whose library is still
\* loaded: never the identifier of a library that has been unloaded.
C16_NoStaleIdentifier ==
    (last.op = "createObject" /\ last.calls # << >>) =>
        \/ last.calls[1].libID = 0
        \/ \E l \in provLibs : l.id = last.calls[1].libID

\* C18: createObject hands the PluginManager the requested interface name
\* and the identifier of the registered record when a non-empty registered
\* short name was given, 0 otherwise; when the PluginManager gives an object
\* the ident info built holds that pair and the code is 1 exactly when a
\* non-empty short name was given and the identifier is 0, else 0; when it
\* gives null the code is -1 and the object is null.
C18_CreateBindsIdentity ==
    (last.op = "createObject" /\ last.calls # << >>) =>
        LET c == last.calls[1]
            named == last.shortName # << >> /\ last.shortName[1] # ""
            want == IF named /\ last.shortName[1] \in DOMAIN knownLibMap_
                    THEN knownLibMap_[last.shortName[1]].uniqueID_
                    ELSE 0
        IN  /\ c.fn = "createObject"
            /\ c.libID = want
            /\ c.apiName = last.apiName
            /\ last.outObj = c.obj
            /\ IF c.obj # NullObj
               THEN /\ identInfo = << [ apiName_ |-> last.apiName, libID_ |-> want ] >>
                    /\ bound[c.obj] = [ apiName_ |-> last.apiName, libID_ |-> want ]
                    /\ last.ret = IF named /\ want = 0 THEN 1 ELSE 0
               ELSE last.ret = -1

\* C18 witness: a creation restricted to a registered short name has
\* returned an object bound to that library's identifier, with code 0.
C18_Witness ==
    /\ last.op = "createObject"
    /\ last.outObj # NullObj
    /\ last.ret = 0
    /\ last.shortName # << >>
    /\ last.shortName[1] \in DOMAIN knownLibMap_
    /\ last.calls[1].libID = knownLibMap_[last.shortName[1]].uniqueID_
    /\ last.calls[1].libID # 0

\* C19: every completed load, unload, createObject and destroyObject has
\* emitted at least one message.
C19_EveryCallEmits == last.op # "init" => last.msgs # << >>

\* C20: the (file name, directory-or-none) pair that unload hands to
\* unloadOneLib for a short name, the split of the recorded full path, is the
\* pair that load handed to loadOneLib when it registered the short name.
C20_PathRoundTrip ==
    (last.op = "load" /\ last.calls # << >> /\ last.calls[1].status >= 0) =>
        LET split == UnloadSplit(knownLibMap_[last.shortName[1]].fullPath_)
        IN  /\ split.libName = last.calls[1].libName
            /\ split.dirName = last.calls[1].dirName

\* The object exists and the handler it holds was made by an object.
Owns(r) == regs[r] # NoReg /\ ~handlers[msgHandler(r)].byClient

\* The object exists and the handler it holds was supplied by the client.
Borrows(r) == regs[r] # NoReg /\ handlers[msgHandler(r)].byClient

\* The objects that hold handler h.
Holders(h) == { r \in Regs : regs[r] # NoReg /\ msgHandler(r) = h }

\* C13: over construction, copy construction, assignment and destruction, a
\* handler made by a registry is never destroyed twice, is never used or held
\* after its destruction, and is never leaked (while it is not destroyed some
\* registry holds it); a handler the client supplied is never destroyed by a
\* registry.
C13_HandlerDestroyedExactlyOnce ==
    /\ ~hlast.usedDeleted
    /\ \A r \in Regs : regs[r] # NoReg => handlers[msgHandler(r)].deletes = 0
    /\ \A h \in 1 .. Len(handlers) :
        /\ handlers[h].deletes <= 1
        /\ handlers[h].byClient => handlers[h].deletes = 0
        /\ (~handlers[h].byClient /\ handlers[h].deletes = 0) => Holders(h) # {}

\* C17: after a copy (copy construction, or assignment from another object)
\* the copy of an object that owns its handler holds a handler of its own, and
\* the copy of an object that borrows its handler holds the same handler.
C17_CopyOfOwnerIsIndependent ==
    (hlast.op \in { "copy", "assign" } /\ hlast.this # hlast.rhs) =>
        /\ Owns(hlast.rhs) => msgHandler(hlast.this) # msgHandler(hlast.rhs)
        /\ Borrows(hlast.rhs) => msgHandler(hlast.this) = msgHandler(hlast.rhs)
====
